---------------------------- MODULE Spec2Model ----------------------------
(***************************************************************************)
(* A model of the template pipeline's driver and emitter                   *)
(* (template/pipeline/src/emit.ts, here src/unnamed/part_001) and of the   *)
(* i18n parameter formatting phase (phases/format_i18n_params.ts).         *)
(*                                                                         *)
(* Four independent machines share the variable tuple; each has its own    *)
(* specification and leaves the variables of the others untouched:         *)
(*   SpecTransform    transform(job, kind) walking the static phase list   *)
(*   SpecEmit         emitTemplateFn / emitHostBindingFunction on a job    *)
(*   SpecFormat       formatI18nParams on a job holding extracted messages *)
(*   SpecFormatValue  formatValue on a single I18nParamValue               *)
(***************************************************************************)
EXTENDS Integers, Sequences, FiniteSets, TLC

VARIABLES
    \* ---- transform ----
    tkind,      \* the `kind` argument of transform: "Tmpl" or "Host"
    tjob,       \* the job's contents, opaque to the driver
    tpc,        \* index into `phases` of the loop of transform
    tstate,     \* "running" | "returned" | "thrown"
    ran,        \* the phase functions invoked so far, in invocation order
    terror,     \* the phase whose exception left the loop, Null while none has
    \* ---- emission ----
    ejob,       \* the job handed to emission: [kind, units], units[1] the root
    pool,       \* ConstantPool.statements
    pool0,      \* pool.statements as it was when emission was called
    epc,        \* "start" | "children" | "done" | "failed" | "idle"
    estack,     \* the active calls of emitChildViews: [unit, i] per call
    rootFn,     \* the local rootFn of emitTemplateFn
    eresult,    \* the value emission returned
    eerror,     \* the assertion that failed, "none" while none has
    \* ---- formatI18nParams ----
    fjob,       \* the job handed to formatI18nParams: a sequence of units
    fjob0,      \* the job as it was when formatI18nParams was called
    fpc,        \* "start" | "done" | "idle"
    \* ---- formatValue ----
    fval,       \* the I18nParamValue handed to formatValue
    fout,       \* what formatValue returned, Null before the call
    \* ---- allocateSlots ----
    sjob,       \* the job handed to allocateSlots: a sequence of views
    sview,      \* index of the view the loop of allocateSlots stands at
    spc,        \* "running" | "done" | "idle"
    \* ---- resolveNames ----
    nviews,     \* the views of the job: [parent, declares] per view
    nref,       \* the reference being resolved: [view, name]
    ncur,       \* the view the walk up the ancestry chain stands at
    npc,        \* "walking" | "resolved" | "failed" | "idle"
    nres,       \* the view whose declaration the reference resolved to
    \* ---- generateTrackFns ----
    kreps,      \* the repeaters of the job: [track, trackByFn] per repeater
    kfns,       \* the shared tracking functions of the pool, by number
    kidx,       \* index of the repeater the loop of generateTrackFns stands at
    kpc,        \* "running" | "done" | "idle"
    \* ---- the repeater at run time ----
    ritems,     \* componentInstance.items, the collection the repeater walks
    rviews,     \* the live views of the repeater in order: [item, index, id]
    rdestroyed, \* the ids of the views the last detectChanges destroyed
    rnext,      \* the id the next view created will get
    rtext,      \* nativeElement.textContent after the last detectChanges
    rpc         \* "dirty" | "clean" | "idle"

rvars == <<ritems, rviews, rdestroyed, rnext, rtext, rpc>>

kvars == <<kreps, kfns, kidx, kpc>>

svars == <<sjob, sview, spc>>

nvars == <<nviews, nref, ncur, npc, nres>>

fvars == <<fjob, fjob0, fpc>>

vvars == <<fval, fout>>

evars == <<ejob, pool, pool0, epc, estack, rootFn, eresult, eerror>>

tvars == <<tkind, tjob, tpc, tstate, ran, terror>>

(***************************************************************************)
(* Bounds of the model.                                                    *)
(***************************************************************************)
\* number of distinct job contents the opaque phases can produce
MaxJobData == 2
\* views of a job, the root included
MaxUnits == 3
\* operations of a job, over all create and update lists of its views
MaxOps == 2
\* placeholders of an extracted message, params and postprocessingParams together
MaxKeys == 2
\* values of one placeholder
MaxVals == 2
\* largest number used as a sub-template index or as a raw value
MaxNum == 10

\* operations in the create list of a view handed to allocateSlots
MaxSlotOps == 2

\* slots one operation reserves
MaxRun == 2

\* repeaters of a job handed to generateTrackFns
MaxRepeaters == 3

\* the items a collection is made of are 1..MaxItem
MaxItem == 3

\* items of a collection
MaxLen == 3

\* view ids handed out before the collection is left alone
MaxViewIds == 5

\* views of a job whose parent links are arbitrary
MaxGraphUnits == 3

(***************************************************************************)
(* transform: the static phase list and the driver loop.                   *)
(***************************************************************************)
P(k, f) == [kind |-> k, fn |-> f]

phases ==
    << P("Tmpl", "removeContentSelectors"),
       P("Host", "parseHostStyleProperties"),
       P("Tmpl", "emitNamespaceChanges"),
       P("Both", "specializeStyleBindings"),
       P("Both", "specializeBindings"),
       P("Tmpl", "propagateI18nBlocks"),
       P("Tmpl", "wrapI18nIcus"),
       P("Both", "extractAttributes"),
       P("Both", "parseExtractedStyles"),
       P("Tmpl", "removeEmptyBindings"),
       P("Both", "collapseSingletonInterpolations"),
       P("Both", "orderOps"),
       P("Tmpl", "generateConditionalExpressions"),
       P("Tmpl", "createPipes"),
       P("Tmpl", "configureDeferInstructions"),
       P("Tmpl", "extractI18nText"),
       P("Tmpl", "extractI18nICUs"),
       P("Tmpl", "applyI18nExpressions"),
       P("Tmpl", "createVariadicPipes"),
       P("Both", "generatePureLiteralStructures"),
       P("Tmpl", "generateProjectionDefs"),
       P("Tmpl", "generateVariables"),
       P("Tmpl", "saveAndRestoreView"),
       P("Tmpl", "deleteAnyCasts"),
       P("Both", "resolveDollarEvent"),
       P("Tmpl", "generateRepeaterDerivedVars"),
       P("Tmpl", "generateTrackVariables"),
       P("Both", "resolveNames"),
       P("Tmpl", "resolveDeferTargetNames"),
       P("Tmpl", "optimizeTrackFns"),
       P("Both", "resolveContexts"),
       P("Tmpl", "resolveSanitizers"),
       P("Tmpl", "liftLocalRefs"),
       P("Both", "generateNullishCoalesceExpressions"),
       P("Both", "expandSafeReads"),
       P("Both", "generateTemporaryVariables"),
       P("Tmpl", "allocateSlots"),
       P("Tmpl", "extractI18nMessages"),
       P("Tmpl", "resolveI18nElementPlaceholders"),
       P("Tmpl", "resolveI18nExpressionPlaceholders"),
       P("Tmpl", "propogateI18nPlaceholders"),
       P("Tmpl", "formatI18nParams"),
       P("Tmpl", "generateTrackFns"),
       P("Tmpl", "collectI18nConsts"),
       P("Tmpl", "collectConstExpressions"),
       P("Both", "collectElementConsts"),
       P("Tmpl", "assignI18nSlotDependencies"),
       P("Both", "countVariables"),
       P("Tmpl", "generateAdvance"),
       P("Both", "optimizeVariables"),
       P("Both", "nameFunctionsAndVariables"),
       P("Tmpl", "mergeNextContextExpressions"),
       P("Tmpl", "generateNgContainerOps"),
       P("Tmpl", "collapseEmptyInstructions"),
       P("Tmpl", "disableBindings"),
       P("Both", "extractPureFunctions"),
       P("Both", "reify"),
       P("Both", "chain") >>

NumPhases == Len(phases)

\* the job kinds a caller passes to transform
JobKinds == {"Tmpl", "Host"}

\* what a phase may leave in the job: the driver never looks at it
JobData == 0..MaxJobData

\* mutant: the test forgets the phases tagged Both
PhaseAppliesNoBoth(phase, kind) == phase.kind = kind

\* the test of the loop body: phase.kind === kind || phase.kind === Kind.Both
PhaseApplies(phase, kind) == phase.kind = kind \/ phase.kind = "Both"

\* the place of a phase function in the list
IndexOf(f) == CHOOSE i \in 1..NumPhases : phases[i].fn = f

\* the list with the entries at places i and j exchanged
Exchanged(i, j) ==
    [n \in 1..NumPhases |-> IF n = i THEN phases[j] ELSE IF n = j THEN phases[i] ELSE phases[n]]

\* mutant: resolveNames is visited where generateVariables stands, and
\* generateVariables where resolveNames stands
PhaseAtResolveNamesFirst(i) ==
    Exchanged(IndexOf("generateVariables"), IndexOf("resolveNames"))[i]

\* mutant: allocateSlots is visited where orderOps stands, and orderOps
\* where allocateSlots stands
PhaseAtAllocateSlotsFirst(i) ==
    Exchanged(IndexOf("orderOps"), IndexOf("allocateSlots"))[i]

\* mutant: reify is visited where extractPureFunctions stands, and
\* extractPureFunctions where reify stands
PhaseAtReifyEarly(i) ==
    Exchanged(IndexOf("extractPureFunctions"), IndexOf("reify"))[i]

\* mutant: formatI18nParams is visited where collectI18nConsts stands, and
\* collectI18nConsts where formatI18nParams stands
PhaseAtFormatI18nParamsLate(i) ==
    Exchanged(IndexOf("formatI18nParams"), IndexOf("collectI18nConsts"))[i]

\* the phase of the i-th iteration of `for (const phase of phases)`
PhaseAt(i) == phases[i]

TransformInit ==
    /\ tkind \in JobKinds
    /\ tjob \in JobData
    /\ tpc = 1
    /\ tstate = "running"
    /\ ran = << >>
    /\ terror = << >>

\* an iteration whose phase does not apply to the job kind: nothing is called
SkipPhase ==
    /\ tstate = "running"
    /\ tpc <= NumPhases
    /\ ~PhaseApplies(PhaseAt(tpc), tkind)
    /\ tpc' = tpc + 1
    /\ UNCHANGED <<tkind, tjob, tstate, ran, terror>>
    /\ UNCHANGED <<evars, fvars, vvars, svars, nvars, kvars, rvars>>

\* an iteration whose phase applies: phase.fn(job) is called, mutates the job
\* in place and returns
RunPhase ==
    /\ tstate = "running"
    /\ tpc <= NumPhases
    /\ PhaseApplies(PhaseAt(tpc), tkind)
    /\ ran' = Append(ran, PhaseAt(tpc).fn)
    /\ \E d \in JobData : tjob' = d
    /\ tpc' = tpc + 1
    /\ UNCHANGED <<tkind, tstate, terror>>
    /\ UNCHANGED <<evars, fvars, vvars, svars, nvars, kvars, rvars>>

\* mutant: the loop body catches what the phase throws and goes on
PhaseThrowsCaught ==
    /\ tstate = "running"
    /\ tpc <= NumPhases
    /\ PhaseApplies(PhaseAt(tpc), tkind)
    /\ ran' = Append(ran, PhaseAt(tpc).fn)
    /\ \E d \in JobData : tjob' = d
    /\ tpc' = tpc + 1
    /\ terror' = << PhaseAt(tpc).fn >>
    /\ UNCHANGED <<tkind, tstate>>
    /\ UNCHANGED <<evars, fvars, vvars, svars, nvars, kvars, rvars>>

\* an iteration whose phase applies and throws: transform has no try/catch,
\* the exception leaves the loop and transform
PhaseThrows ==
    /\ tstate = "running"
    /\ tpc <= NumPhases
    /\ PhaseApplies(PhaseAt(tpc), tkind)
    /\ ran' = Append(ran, PhaseAt(tpc).fn)
    /\ \E d \in JobData : tjob' = d
    /\ tstate' = "thrown"
    /\ terror' = << PhaseAt(tpc).fn >>
    /\ UNCHANGED <<tkind, tpc>>
    /\ UNCHANGED <<evars, fvars, vvars, svars, nvars, kvars, rvars>>

\* the loop is exhausted: transform returns
TransformReturn ==
    /\ tstate = "running"
    /\ tpc > NumPhases
    /\ tstate' = "returned"
    /\ UNCHANGED <<tkind, tjob, tpc, ran, terror>>
    /\ UNCHANGED <<evars, fvars, vvars, svars, nvars, kvars, rvars>>

TransformNext == SkipPhase \/ RunPhase \/ PhaseThrows \/ TransformReturn

\* the transform machine at rest, for the specifications of the other machines
TransformIdle ==
    /\ tkind = "Tmpl"
    /\ tjob = 0
    /\ tpc = 1
    /\ tstate = "idle"
    /\ ran = << >>
    /\ terror = << >>

(***************************************************************************)
(* Emission: the job, emitView, emitChildViews, emitTemplateFn and         *)
(* emitHostBindingFunction.                                                *)
(***************************************************************************)
\* null, for a fnName, a parent and a returned function
Null == << >>

\* the statement a lowered operation carries: one object per operation
Stmt(x, l, i) == <<x, l, i>>

StatementOp(x, l, i) == [kind |-> "Statement", statement |-> Stmt(x, l, i)]

\* o.fn(params, body, type, sourceSpan, name)
Fn(params, body, name) == [params |-> params, body |-> body, name |-> name]

\* o.ifStmt(new o.BinaryOperatorExpr(BitwiseAnd, o.variable('rf'), o.literal(flag)), statements)
IfStmt(flag, statements) ==
    [cond |-> [op |-> "&", lhs |-> "rf", rhs |-> flag], then |-> statements]

\* viewFn.toDeclStmt(viewFn.name)
DeclStmt(fn) == [decl |-> fn.name, fn |-> fn]

\* a constant the phases have put in the pool before emission
PriorStmt == [decl |-> <<"const">>, fn |-> Null]

\* mutant: the block is emitted even when it has no statement
MaybeGenerateRfBlockAlways(flag, statements) == << IfStmt(flag, statements) >>

MaybeGenerateRfBlock(flag, statements) ==
    IF Len(statements) = 0 THEN << >> ELSE << IfStmt(flag, statements) >>

AllStatements(ops) == \A i \in 1..Len(ops) : ops[i].kind = "Statement"

StatementsOf(ops) == [i \in 1..Len(ops) |-> ops[i].statement]

\* the function two fully lowered lists and a name give
ViewFn(create, update, name) ==
    Fn(<<"rf", "ctx">>,
       MaybeGenerateRfBlock(1, StatementsOf(create))
           \o MaybeGenerateRfBlock(2, StatementsOf(update)),
       name)

Thrown(e) == [ok |-> FALSE, err |-> e]

Returned(v) == [ok |-> TRUE, fn |-> v]

\* mutant: the update list is collected without the check of its kinds
EmitViewUncheckedUpdate(view) ==
    IF view.fnName = Null THEN Thrown("unnamed")
    ELSE IF ~AllStatements(view.create) THEN Thrown("create")
    ELSE Returned(ViewFn(view.create,
                         SelectSeq(view.update, LAMBDA op : op.kind = "Statement"),
                         view.fnName))

\* mutant: the test of the name is inverted
EmitViewInvertedName(view) ==
    IF view.fnName # Null THEN Thrown("unnamed")
    ELSE IF ~AllStatements(view.create) THEN Thrown("create")
    ELSE IF ~AllStatements(view.update) THEN Thrown("update")
    ELSE Returned(ViewFn(view.create, view.update, view.fnName))

\* mutant: the name is asserted after the lists have been looked at
EmitViewNameLast(view) ==
    IF ~AllStatements(view.create) THEN Thrown("create")
    ELSE IF ~AllStatements(view.update) THEN Thrown("update")
    ELSE IF view.fnName = Null THEN Thrown("unnamed")
    ELSE Returned(ViewFn(view.create, view.update, view.fnName))

EmitView(view) ==
    IF view.fnName = Null THEN Thrown("unnamed")
    ELSE IF ~AllStatements(view.create) THEN Thrown("create")
    ELSE IF ~AllStatements(view.update) THEN Thrown("update")
    ELSE Returned(ViewFn(view.create, view.update, view.fnName))

\* mutant: null is returned as soon as the create list is empty
EmitHostBindingFunctionNullOnEmptyCreate(job) ==
    LET root == job.units[1] IN
    IF root.fnName = Null THEN Thrown("unnamed")
    ELSE IF ~AllStatements(root.create) THEN Thrown("create")
    ELSE IF ~AllStatements(root.update) THEN Thrown("update")
    ELSE IF Len(root.create) = 0 THEN Returned(Null)
    ELSE Returned(ViewFn(root.create, root.update, root.fnName))

EmitHostBindingFunction(job) ==
    LET root == job.units[1] IN
    IF root.fnName = Null THEN Thrown("unnamed")
    ELSE IF ~AllStatements(root.create) THEN Thrown("create")
    ELSE IF ~AllStatements(root.update) THEN Thrown("update")
    ELSE IF Len(root.create) = 0 /\ Len(root.update) = 0 THEN Returned(Null)
    ELSE Returned(ViewFn(root.create, root.update, root.fnName))

\* mutant: the declaration is put in front of the pool's statements
PoolUnshift(statements, stmt) == << stmt >> \o statements

\* pool.statements.push(stmt)
PoolPush(statements, stmt) == Append(statements, stmt)

\* mutant: a view whose parent names no view of the job is taken for a
\* child of the root
ChildrenFromOrphans(job, u, i) ==
    {j \in i..Len(job.units) :
        \/ job.units[j].parent = <<job.units[u].xref>>
        \/ /\ u = 1
           /\ job.units[j].parent # Null
           /\ \A v \in 1..Len(job.units) : job.units[j].parent # <<job.units[v].xref>>}

\* the units at or after position i whose parent is the view at position u
ChildrenFrom(job, u, i) ==
    {j \in i..Len(job.units) : job.units[j].parent = <<job.units[u].xref>>}

\* mutant: the loop takes the last child first
MinLast(S) == CHOOSE x \in S : \A y \in S : x >= y

Min(S) == CHOOSE x \in S : \A y \in S : x <= y

(* ---- the jobs emission is run on ---- *)
\* the xref of the view at position i of job.units; the root's is 0
XrefAt(i) == i - 1

\* the kinds of the operations of a list: lowered, or not yet
OpKinds == {"Statement", "Element"}

KindLists(maxLen) == UNION {[1..l -> OpKinds] : l \in 0..maxLen}

\* the kinds of the operations of k lists that hold at most budget operations
\* between them
RECURSIVE OpKindLists(_, _)
OpKindLists(k, budget) ==
    IF k = 0 THEN {<< >>}
    ELSE UNION {{<< ks >> \o rest : rest \in OpKindLists(k - 1, budget - Len(ks))} :
                   ks \in KindLists(budget)}

BuildOps(x, l, kinds) ==
    [i \in 1..Len(kinds) |->
        IF kinds[i] = "Statement" THEN StatementOp(x, l, i) ELSE [kind |-> kinds[i]]]

\* the view at position i: its lists are the (2i-1)-th and the 2i-th of kinds
BuildUnit(i, par, named, kinds) ==
    [xref   |-> XrefAt(i),
     parent |-> IF i = 1 THEN Null ELSE << XrefAt(par[i]) >>,
     fnName |-> IF i \in named THEN << "fn", XrefAt(i) >> ELSE Null,
     create |-> BuildOps(XrefAt(i), "create", kinds[2 * i - 1]),
     update |-> BuildOps(XrefAt(i), "update", kinds[2 * i])]

\* template jobs: a tree of n views, every view but the root allocated under
\* a view allocated before it
\* host-binding jobs: the root alone
EmitInit ==
    /\ \E k \in JobKinds :
       \E n \in 1..(IF k = "Host" THEN 1 ELSE MaxUnits) :
       \E kinds \in OpKindLists(2 * n, MaxOps) :
       \E par \in [1..n -> 1..n] :
       \E named \in SUBSET (1..n) :
          /\ par[1] = 1
          /\ \A i \in 2..n : par[i] < i
          /\ ejob = [kind |-> k,
                     units |-> [i \in 1..n |-> BuildUnit(i, par, named, kinds)]]
    /\ pool = << PriorStmt >>
    /\ pool0 = pool
    /\ epc = "start"
    /\ estack = << >>
    /\ rootFn = Null
    /\ eresult = Null
    /\ eerror = "none"

(* ---- jobs whose parent links need not form a tree ---- *)
\* what a parent field can hold in a job of n views: null, the xref of a
\* view of the job, the view's own included, or an xref no view has
ParentLinks(n) == {Null} \cup {<< x >> : x \in 0..n}

\* how a view stands before emission
ViewStates == {"good", "unnamed", "unlowered"}

\* the view at position i with the given parent field
GraphUnit(i, parent, state) ==
    [xref   |-> XrefAt(i),
     parent |-> parent,
     fnName |-> IF state = "unnamed" THEN Null ELSE << "fn", XrefAt(i) >>,
     create |-> IF state = "unlowered" THEN << [kind |-> "Element"] >>
                ELSE << StatementOp(XrefAt(i), "create", 1) >>,
     update |-> << >>]

\* template jobs: unique xrefs, the root's parent null, any parent field on
\* the other views
\* host-binding jobs: the root alone
EmitGraphInit ==
    /\ \E k \in JobKinds :
       \E n \in 1..(IF k = "Host" THEN 1 ELSE MaxGraphUnits) :
       \E links \in [1..n -> ParentLinks(n)] :
       \E states \in [1..n -> ViewStates] :
          /\ links[1] = Null
          /\ ejob = [kind |-> k,
                     units |-> [i \in 1..n |-> GraphUnit(i, links[i], states[i])]]
    /\ pool = << PriorStmt >>
    /\ pool0 = pool
    /\ epc = "start"
    /\ estack = << >>
    /\ rootFn = Null
    /\ eresult = Null
    /\ eerror = "none"

\* emitTemplateFn up to its call of emitChildViews: rootFn = emitView(tpl.root)
EmitTemplateFnStart ==
    /\ epc = "start"
    /\ ejob.kind = "Tmpl"
    /\ LET r == EmitView(ejob.units[1]) IN
         IF r.ok
         THEN /\ rootFn' = r.fn
              /\ estack' = << [unit |-> 1, i |-> 1] >>
              /\ epc' = "children"
              /\ UNCHANGED eerror
         ELSE /\ eerror' = r.err
              /\ epc' = "failed"
              /\ UNCHANGED <<rootFn, estack>>
    /\ UNCHANGED <<ejob, pool, pool0, eresult>>
    /\ UNCHANGED <<tvars, fvars, vvars, svars, nvars, kvars, rvars>>

\* emitChildViews(parent): the loop runs on to the next unit whose parent is
\* parent.xref and calls emitChildViews on it
EnterChild ==
    /\ epc = "children"
    /\ LET top == estack[Len(estack)]
           cs  == ChildrenFrom(ejob, top.unit, top.i)
       IN /\ cs # {}
          /\ estack' = Append([estack EXCEPT ![Len(estack)].i = Min(cs)],
                              [unit |-> Min(cs), i |-> 1])
    /\ UNCHANGED <<ejob, pool, pool0, epc, rootFn, eresult, eerror>>
    /\ UNCHANGED <<tvars, fvars, vvars, svars, nvars, kvars, rvars>>

\* emitChildViews(unit) returns to the loop that called it: the caller emits
\* the unit and pushes its declaration, or emitView throws
EmitChild ==
    /\ epc = "children"
    /\ Len(estack) > 1
    /\ LET top == estack[Len(estack)]
           r   == EmitView(ejob.units[top.unit])
       IN /\ ChildrenFrom(ejob, top.unit, top.i) = {}
          /\ IF r.ok
             THEN /\ pool' = PoolPush(pool, DeclStmt(r.fn))
                  /\ estack' = [SubSeq(estack, 1, Len(estack) - 1)
                                   EXCEPT ![Len(estack) - 1].i = top.unit + 1]
                  /\ UNCHANGED <<epc, eerror>>
             ELSE /\ eerror' = r.err
                  /\ epc' = "failed"
                  /\ UNCHANGED <<pool, estack>>
    /\ UNCHANGED <<ejob, pool0, rootFn, eresult>>
    /\ UNCHANGED <<tvars, fvars, vvars, svars, nvars, kvars, rvars>>

\* emitChildViews(tpl.root) returns and emitTemplateFn returns rootFn
EmitTemplateFnReturn ==
    /\ epc = "children"
    /\ Len(estack) = 1
    /\ ChildrenFrom(ejob, 1, estack[1].i) = {}
    /\ estack' = << >>
    /\ eresult' = rootFn
    /\ epc' = "done"
    /\ UNCHANGED <<ejob, pool, pool0, rootFn, eerror>>
    /\ UNCHANGED <<tvars, fvars, vvars, svars, nvars, kvars, rvars>>

\* emitHostBindingFunction(job), which calls nothing that has a state
EmitHost ==
    /\ epc = "start"
    /\ ejob.kind = "Host"
    /\ LET r == EmitHostBindingFunction(ejob) IN
         IF r.ok
         THEN /\ eresult' = r.fn
              /\ epc' = "done"
              /\ UNCHANGED eerror
         ELSE /\ eerror' = r.err
              /\ epc' = "failed"
              /\ UNCHANGED eresult
    /\ UNCHANGED <<ejob, pool, pool0, estack, rootFn>>
    /\ UNCHANGED <<tvars, fvars, vvars, svars, nvars, kvars, rvars>>

EmitNext ==
    EmitTemplateFnStart \/ EnterChild \/ EmitChild \/ EmitTemplateFnReturn \/ EmitHost

\* the emission machine at rest, for the specifications of the other machines
EmitIdle ==
    /\ ejob = [kind |-> "Tmpl", units |-> << >>]
    /\ pool = << >>
    /\ pool0 = << >>
    /\ epc = "idle"
    /\ estack = << >>
    /\ rootFn = Null
    /\ eresult = Null
    /\ eerror = "none"

(***************************************************************************)
(* I18n parameter formatting.  A string is the sequence of its UTF-16 code *)
(* units, so that strings can be built, compared and sorted as the         *)
(* JavaScript runtime does.                                                *)
(***************************************************************************)
\* '�'
ESCAPE == 65533
\* '#'
ELEMENT_MARKER == 35
\* '*'
TEMPLATE_MARKER == 42
\* '/'
TAG_CLOSE_MARKER == 47
\* ':'
CONTEXT_MARKER == 58
\* '['
LIST_START_MARKER == 91
\* ']'
LIST_END_MARKER == 93
\* '|'
LIST_DELIMITER == 124

\* the bits of ir.I18nParamValueFlags that formatValue tests
I18nParamValueFlags == {"ElementTag", "TemplateTag", "OpenTag", "CloseTag"}

\* value.flags & flag
HasFlag(value, flag) == flag \in value.flags

\* the decimal digits of a non-negative integer, as `${n}` writes them
RECURSIVE ToDecimal(_)
ToDecimal(n) ==
    IF n < 10 THEN << 48 + n >> ELSE ToDecimal(n \div 10) \o << 48 + (n % 10) >>

\* `${value.value}`: value.value is a string or a number
RawToString(raw) == IF "num" \in DOMAIN raw THEN ToDecimal(raw.num) ELSE raw.str

\* mutant: a self-closing tag is written as its open form alone
FormatValueSingleSegment(value) ==
    LET tagMarker   == IF HasFlag(value, "ElementTag") THEN << ELEMENT_MARKER >>
                       ELSE IF HasFlag(value, "TemplateTag") THEN << TEMPLATE_MARKER >>
                       ELSE << >>
        context     == IF value.subTemplateIndex = << >> THEN << >>
                       ELSE << CONTEXT_MARKER >> \o ToDecimal(value.subTemplateIndex[1])
        raw         == RawToString(value.value)
    IN  << ESCAPE >> \o tagMarker \o raw \o context \o << ESCAPE >>

\* mutant: the sub-template index is tested for truth, so index 0 is dropped
FormatValueFalsyIndex(value) ==
    LET tagMarker   == IF HasFlag(value, "ElementTag") THEN << ELEMENT_MARKER >>
                       ELSE IF HasFlag(value, "TemplateTag") THEN << TEMPLATE_MARKER >>
                       ELSE << >>
        closeMarker == IF tagMarker # << >>
                       THEN (IF HasFlag(value, "CloseTag") THEN << TAG_CLOSE_MARKER >> ELSE << >>)
                       ELSE << >>
        context     == IF value.subTemplateIndex = << >> \/ value.subTemplateIndex = << 0 >>
                       THEN << >>
                       ELSE << CONTEXT_MARKER >> \o ToDecimal(value.subTemplateIndex[1])
        raw         == RawToString(value.value)
    IN  IF HasFlag(value, "OpenTag") /\ HasFlag(value, "CloseTag")
        THEN << ESCAPE >> \o tagMarker \o raw \o context \o << ESCAPE >>
             \o << ESCAPE >> \o closeMarker \o tagMarker \o raw \o context \o << ESCAPE >>
        ELSE << ESCAPE >> \o closeMarker \o tagMarker \o raw \o context \o << ESCAPE >>

FormatValue(value) ==
    LET tagMarker   == IF HasFlag(value, "ElementTag") THEN << ELEMENT_MARKER >>
                       ELSE IF HasFlag(value, "TemplateTag") THEN << TEMPLATE_MARKER >>
                       ELSE << >>
        closeMarker == IF tagMarker # << >>
                       THEN (IF HasFlag(value, "CloseTag") THEN << TAG_CLOSE_MARKER >> ELSE << >>)
                       ELSE << >>
        context     == IF value.subTemplateIndex = << >> THEN << >>
                       ELSE << CONTEXT_MARKER >> \o ToDecimal(value.subTemplateIndex[1])
        raw         == RawToString(value.value)
    IN  IF HasFlag(value, "OpenTag") /\ HasFlag(value, "CloseTag")
        THEN << ESCAPE >> \o tagMarker \o raw \o context \o << ESCAPE >>
             \o << ESCAPE >> \o closeMarker \o tagMarker \o raw \o context \o << ESCAPE >>
        ELSE << ESCAPE >> \o closeMarker \o tagMarker \o raw \o context \o << ESCAPE >>

\* Array.prototype.join over strings
RECURSIVE Join(_, _)
Join(strs, sep) ==
    IF Len(strs) = 0 THEN << >>
    ELSE IF Len(strs) = 1 THEN strs[1]
    ELSE strs[1] \o sep \o Join(Tail(strs), sep)

\* mutant: the list is joined back to front
FormatParamValuesReversed(values) ==
    IF Len(values) = 0 THEN << >>
    ELSE LET serializedValues == [i \in 1..Len(values) |-> FormatValue(values[Len(values) + 1 - i])]
         IN  IF Len(serializedValues) = 1 THEN << serializedValues[1] >>
             ELSE << << LIST_START_MARKER >> \o Join(serializedValues, << LIST_DELIMITER >>)
                     \o << LIST_END_MARKER >> >>

\* formatParamValues returns null, here << >>, or a string s, here << s >>
FormatParamValues(values) ==
    IF Len(values) = 0 THEN << >>
    ELSE LET serializedValues == [i \in 1..Len(values) |-> FormatValue(values[i])]
         IN  IF Len(serializedValues) = 1 THEN << serializedValues[1] >>
             ELSE << << LIST_START_MARKER >> \o Join(serializedValues, << LIST_DELIMITER >>)
                     \o << LIST_END_MARKER >> >>

\* s < t on strings: the order of the code units, a proper prefix first
RECURSIVE StrLess(_, _)
StrLess(s, t) ==
    IF Len(t) = 0 THEN FALSE
    ELSE IF Len(s) = 0 THEN TRUE
    ELSE IF s[1] # t[1] THEN s[1] < t[1]
    ELSE StrLess(Tail(s), Tail(t))

\* "[object Object]", what String(v) is for an I18nParamValue
ObjectToString == << 91, 111, 98, 106, 101, 99, 116, 32, 79, 98, 106, 101, 99, 116, 93 >>

\* String([placeholder, placeholderValues]), the key sort() orders the entries
\* of [...params] by when it is given no comparator
EntryToString(entry) ==
    entry.key \o << 44 >>
        \o Join([i \in 1..Len(entry.values) |-> ObjectToString], << 44 >>)

\* one step of a stable insertion: e goes after every entry not greater than it
RECURSIVE InsertEntry(_, _)
InsertEntry(sorted, e) ==
    IF Len(sorted) = 0 THEN << e >>
    ELSE IF StrLess(EntryToString(e), EntryToString(sorted[1]))
         THEN << e >> \o sorted
         ELSE << sorted[1] >> \o InsertEntry(Tail(sorted), e)

RECURSIVE SortFrom(_, _)
SortFrom(entries, sorted) ==
    IF Len(entries) = 0 THEN sorted
    ELSE SortFrom(Tail(entries), InsertEntry(sorted, entries[1]))

\* [...params].sort(): stable, ascending in String(entry)
SortEntries(entries) == SortFrom(entries, << >>)

\* o.literal(s)
Literal(s) == [literal |-> s]

\* Map.prototype.set: a new key goes last, an old key keeps its place
MapSet(map, k, v) ==
    IF \E i \in 1..Len(map) : map[i].key = k
    THEN [i \in 1..Len(map) |-> IF map[i].key = k THEN [key |-> k, value |-> v] ELSE map[i]]
    ELSE Append(map, [key |-> k, value |-> v])

RECURSIVE FormatEntries(_, _)
FormatEntries(entries, result) ==
    IF Len(entries) = 0 THEN result
    ELSE LET serializedValues == FormatParamValues(entries[1].values) IN
         FormatEntries(Tail(entries),
                       IF serializedValues # << >>
                       THEN MapSet(result, entries[1].key,
                                   Literal(FormatParamValues(entries[1].values)[1]))
                       ELSE result)

\* mutant: a placeholder without values gets the literal null
FormatParamsKeepEmpty(params) ==
    LET sorted == SortEntries(params) IN
    [i \in 1..Len(sorted) |->
        [key |-> sorted[i].key,
         value |-> IF sorted[i].values = << >> THEN Literal(<< >>)
                   ELSE Literal(FormatParamValues(sorted[i].values)[1])]]

\* a Map is the sequence of its entries in iteration order
FormatParams(params) == FormatEntries(SortEntries(params), << >>)

\* mutant: a placeholder with a single value already asks for post-processing
FormatMessageCountsSingle(op) ==
    [op EXCEPT
        !.formattedParams = << FormatParams(op.params) >>,
        !.formattedPostprocessingParams = << FormatParams(op.postprocessingParams) >>,
        !.needsPostprocessing =
            \/ Len(op.postprocessingParams) > 0
            \/ \E i \in 1..Len(op.params) : Len(op.params[i].values) >= 1]

\* the message op after the body of `if (op.isRoot)`
FormatMessage(op) ==
    [op EXCEPT
        !.formattedParams = << FormatParams(op.params) >>,
        !.formattedPostprocessingParams = << FormatParams(op.postprocessingParams) >>,
        !.needsPostprocessing =
            \/ Len(op.postprocessingParams) > 0
            \/ \E i \in 1..Len(op.params) : Len(op.params[i].values) > 1]

\* mutant: every extracted message is formatted, root or not
FormatOpAnyMessage(op) ==
    IF op.kind = "ExtractedMessage" THEN FormatMessage(op) ELSE op

FormatOp(op) ==
    IF op.kind = "ExtractedMessage" /\ op.isRoot THEN FormatMessage(op) ELSE op

\* the job after formatI18nParams: the create list of every unit is walked
FormatI18nParamsJob(job) ==
    [u \in 1..Len(job) |->
        [job[u] EXCEPT !.create = [i \in 1..Len(job[u].create) |-> FormatOp(job[u].create[i])]]]

(* ---- the inputs formatting is run on ---- *)
\* placeholder names: "A", "A!", "B"
Names == { << 65 >>, << 65, 33 >>, << 66 >> }

Num(n) == [num |-> n]

Str(s) == [str |-> s]

\* raw values: slot numbers, and the strings "" and "x"
RawValues == {Num(n) : n \in 0..MaxNum} \cup {Str(<< >>), Str(<< 120 >>)}

SubTemplateIndexes == {<< >>} \cup {<< n >> : n \in 0..MaxNum}

I18nParamValue(raw, idx, flags) == [value |-> raw, subTemplateIndex |-> idx, flags |-> flags]

AllValues ==
    {I18nParamValue(raw, idx, flags) :
        raw \in RawValues, idx \in SubTemplateIndexes, flags \in SUBSET I18nParamValueFlags}

\* the values the placeholders of a message are filled with: a self-closing
\* element of sub-template 1 and a plain expression value
SampleValues ==
    { I18nParamValue(Num(0), << 1 >>, {"ElementTag", "OpenTag", "CloseTag"}),
      I18nParamValue(Num(1), << >>, {}) }

ValueLists == UNION {[1..n -> SampleValues] : n \in 0..MaxVals}

\* the maps of k placeholders, in every insertion order
ParamMaps(k) ==
    {m \in [1..k -> [key : Names, values : ValueLists]] :
        \A i, j \in 1..k : i # j => m[i].key # m[j].key}

ExtractedMessageOp(isRoot, params, postprocessingParams) ==
    [kind |-> "ExtractedMessage",
     isRoot |-> isRoot,
     params |-> params,
     postprocessingParams |-> postprocessingParams,
     formattedParams |-> << >>,
     formattedPostprocessingParams |-> << >>,
     needsPostprocessing |-> FALSE]

\* a job of two views around one root message: the message after another
\* operation in the create list of the first view, and a message of the
\* same params that is not a root in the create list of the second
JobAround(params, postprocessingParams) ==
    << [create |-> << [kind |-> "Element"],
                      ExtractedMessageOp(TRUE, params, postprocessingParams) >>,
        update |-> << [kind |-> "Binding"] >>],
       [create |-> << ExtractedMessageOp(FALSE, params, postprocessingParams) >>,
        update |-> << >>] >>

FormatInit ==
    /\ \E k \in 0..MaxKeys :
       \E kp \in 0..(MaxKeys - k) :
       \E params \in ParamMaps(k) :
       \E postprocessingParams \in ParamMaps(kp) :
          fjob = JobAround(params, postprocessingParams)
    /\ fjob0 = fjob
    /\ fpc = "start"

\* formatI18nParams(job)
FormatI18nParams ==
    /\ fpc = "start"
    /\ fjob' = FormatI18nParamsJob(fjob)
    /\ fpc' = "done"
    /\ UNCHANGED fjob0
    /\ UNCHANGED <<tvars, evars, vvars, svars, nvars, kvars, rvars>>

FormatNext == FormatI18nParams

FormatIdle ==
    /\ fjob = << >>
    /\ fjob0 = << >>
    /\ fpc = "idle"

(* ---- two maps of the same entries, populated in different orders ---- *)
\* placeholder names: "A", "A,[object Object]", "B"
CollidingNames == { << 65 >>, << 65, 44 >> \o ObjectToString, << 66 >> }

\* the maps of k placeholders of the given names, in every insertion order
ParamMapsOver(names, k) ==
    {m \in [1..k -> [key : names, values : ValueLists]] :
        \A i, j \in 1..k : i # j => m[i].key # m[j].key}

\* the map of the entries of m, inserted in the order perm
Reinserted(m, perm) == [i \in 1..Len(m) |-> m[perm[i]]]

\* a job of one view with two root messages in its create list
JobOfTwo(params1, params2) ==
    << [create |-> << ExtractedMessageOp(TRUE, params1, << >>),
                      ExtractedMessageOp(TRUE, params2, << >>) >>,
        update |-> << >>] >>

FormatOrderInit ==
    /\ \E k \in 1..MaxKeys :
       \E params \in ParamMapsOver(CollidingNames, k) :
       \E perm \in Permutations(1..k) :
          fjob = JobOfTwo(params, Reinserted(params, perm))
    /\ fjob0 = fjob
    /\ fpc = "start"

FormatValueInit ==
    /\ fval \in AllValues
    /\ fout = << >>

\* formatValue(value)
ApplyFormatValue ==
    /\ fout = << >>
    /\ fval \in AllValues
    /\ fout' = FormatValue(fval)
    /\ UNCHANGED fval
    /\ UNCHANGED <<tvars, evars, fvars, svars, nvars, kvars, rvars>>

FormatValueNext == ApplyFormatValue

FormatValueIdle ==
    /\ fval = << >>
    /\ fout = << >>

(***************************************************************************)
(* allocateSlots, a phase whose body is not part of the sources: it is     *)
(* modelled from section 4.3 of the specification. Every operation of a    *)
(* create list that needs storage is given the next free slot of its view, *)
(* in list order, and reserves numSlotsUsed slots from there on.           *)
(***************************************************************************)
\* an operation of a create list: numSlotsUsed is 0 for an operation that
\* needs no storage, 1 for an element, more for a multi-slot entity such as
\* a repeater with its primary and empty block
SlotOp(numSlotsUsed) == [numSlotsUsed |-> numSlotsUsed, slot |-> Null]

\* mutant: every operation advances the count by one slot
AllocateFromOneEach(ops, slotCount) ==
    [i \in 1..Len(ops) |->
        IF ops[i].numSlotsUsed = 0 THEN ops[i]
        ELSE [ops[i] EXCEPT !.slot =
                 << slotCount + Cardinality({j \in 1..(i - 1) : ops[j].numSlotsUsed > 0}) >>]]

\* the create list with its slots assigned, the count starting at slotCount
RECURSIVE AllocateFrom(_, _)
AllocateFrom(ops, slotCount) ==
    IF Len(ops) = 0 THEN << >>
    ELSE IF ops[1].numSlotsUsed = 0
         THEN << ops[1] >> \o AllocateFrom(Tail(ops), slotCount)
         ELSE << [ops[1] EXCEPT !.slot = << slotCount >>] >>
                  \o AllocateFrom(Tail(ops), slotCount + ops[1].numSlotsUsed)

\* one view after allocation
AllocateView(view) == [view EXCEPT !.create = AllocateFrom(view.create, view.base)]

SlotOpLists == UNION {[1..n -> {SlotOp(r) : r \in 0..MaxRun}] : n \in 0..MaxSlotOps}

\* per-view base offsets
BaseOffsets == {0, 1}

SlotView(base, create) == [base |-> base, create |-> create]

\* a job of a root view and one embedded view
AllocateSlotsInit ==
    /\ \E b1, b2 \in BaseOffsets :
       \E c1, c2 \in SlotOpLists :
          sjob = << SlotView(b1, c1), SlotView(b2, c2) >>
    /\ sview = 1
    /\ spc = "running"

\* one iteration of the loop over the views of the job
AllocateSlotsInView ==
    /\ spc = "running"
    /\ sview <= Len(sjob)
    /\ sjob' = [sjob EXCEPT ![sview] = AllocateView(@)]
    /\ sview' = sview + 1
    /\ UNCHANGED spc
    /\ UNCHANGED <<tvars, evars, fvars, vvars, nvars, kvars, rvars>>

\* the loop is exhausted: allocateSlots returns
AllocateSlotsReturn ==
    /\ spc = "running"
    /\ sview > Len(sjob)
    /\ spc' = "done"
    /\ UNCHANGED <<sjob, sview>>
    /\ UNCHANGED <<tvars, evars, fvars, vvars, nvars, kvars, rvars>>

AllocateSlotsNext == AllocateSlotsInView \/ AllocateSlotsReturn

AllocateSlotsIdle ==
    /\ sjob = << >>
    /\ sview = 1
    /\ spc = "idle"

(***************************************************************************)
(* resolveNames, a phase whose body is not part of the sources: it is      *)
(* modelled from section 4.2 of the specification. A reference is resolved *)
(* by walking the ancestry chain of its view, current view first, up to    *)
(* the first view that declares the name.                                  *)
(***************************************************************************)
\* the names views declare
VarNames == {"item", "other"}

\* mutant: the walk goes on to the view allocated before the current one
NextScopePreviousView(views, cur) == IF cur = 1 THEN Null ELSE << cur - 1 >>

\* the scope the walk goes on to: the parent view, Null above the root
NextScope(views, cur) == views[cur].parent

ScopeView(parent, declares) == [parent |-> parent, declares |-> declares]

\* a tree of n views, every view but the root under a view allocated before
\* it, each declaring some of the names, and a reference in one of the views
ResolveNamesInit ==
    /\ \E n \in 1..MaxUnits :
       \E par \in [1..n -> 1..n] :
       \E declares \in [1..n -> SUBSET VarNames] :
          /\ \A i \in 1..n : par[i] < i \/ (i = 1 /\ par[i] = 1)
          /\ nviews = [i \in 1..n |->
                          ScopeView(IF i = 1 THEN Null ELSE << par[i] >>, declares[i])]
    /\ nref \in [view : 1..Len(nviews), name : VarNames]
    /\ ncur = nref.view
    /\ npc = "walking"
    /\ nres = Null

\* the view the walk stands at declares the name
ResolveNamesFound ==
    /\ npc = "walking"
    /\ nref.name \in nviews[ncur].declares
    /\ nres' = << ncur >>
    /\ npc' = "resolved"
    /\ UNCHANGED <<nviews, nref, ncur>>
    /\ UNCHANGED <<tvars, evars, fvars, vvars, svars, kvars, rvars>>

\* it does not: the walk goes on to the enclosing scope
ResolveNamesAscend ==
    /\ npc = "walking"
    /\ nref.name \notin nviews[ncur].declares
    /\ NextScope(nviews, ncur) # Null
    /\ ncur' = NextScope(nviews, ncur)[1]
    /\ UNCHANGED <<nviews, nref, npc, nres>>
    /\ UNCHANGED <<tvars, evars, fvars, vvars, svars, kvars, rvars>>

\* no enclosing scope is left: the name is unresolved, a fatal error
ResolveNamesFails ==
    /\ npc = "walking"
    /\ nref.name \notin nviews[ncur].declares
    /\ NextScope(nviews, ncur) = Null
    /\ npc' = "failed"
    /\ UNCHANGED <<nviews, nref, ncur, nres>>
    /\ UNCHANGED <<tvars, evars, fvars, vvars, svars, kvars, rvars>>

ResolveNamesNext == ResolveNamesFound \/ ResolveNamesAscend \/ ResolveNamesFails

ResolveNamesIdle ==
    /\ nviews = << >>
    /\ nref = [view |-> 1, name |-> "item"]
    /\ ncur = 1
    /\ npc = "idle"
    /\ nres = Null

(***************************************************************************)
(* generateTrackFns. The body of the phase is not part of the sources; the *)
(* compliance tests of the repeater state what it has to do: identical     *)
(* pure tracking functions are reused, and identical impure tracking       *)
(* functions are reused as well. Every repeater asks the pool for the      *)
(* shared function of its tracking expression.                             *)
(***************************************************************************)
\* a tracking expression: its text, and whether it reads the component
\* instance through a method call, which makes it impure
TrackExpr(text, impure) == [text |-> text, impure |-> impure]

TrackExprs ==
    { TrackExpr("item.id", FALSE), TrackExpr("item.name", FALSE),
      TrackExpr("trackFn(item, message)", TRUE), TrackExpr("other(item, message)", TRUE) }

\* the number of the function of the pool that is equivalent to expr, 0 if
\* there is none
SharedIndex(fns, expr) ==
    IF \E n \in 1..Len(fns) : fns[n] = expr
    THEN CHOOSE n \in 1..Len(fns) : fns[n] = expr
    ELSE 0

\* mutant: only a pure function is looked up, an impure one is declared anew
GetSharedFunctionReferencePureOnly(fns, expr) ==
    IF ~expr.impure /\ SharedIndex(fns, expr) # 0
    THEN [fns |-> fns, ref |-> SharedIndex(fns, expr)]
    ELSE [fns |-> Append(fns, expr), ref |-> Len(fns) + 1]

\* the pool's shared function for expr: the one already declared for an
\* identical expression, else a new one; pure and impure alike
GetSharedFunctionReference(fns, expr) ==
    IF SharedIndex(fns, expr) # 0
    THEN [fns |-> fns, ref |-> SharedIndex(fns, expr)]
    ELSE [fns |-> Append(fns, expr), ref |-> Len(fns) + 1]

RepeaterCreate(track) == [track |-> track, trackByFn |-> Null]

GenerateTrackFnsInit ==
    /\ \E n \in 1..MaxRepeaters :
          kreps \in [1..n -> {RepeaterCreate(e) : e \in TrackExprs}]
    /\ kfns = << >>
    /\ kidx = 1
    /\ kpc = "running"

\* one repeater: op.trackByFn becomes the reference to the shared function
GenerateTrackFn ==
    /\ kpc = "running"
    /\ kidx <= Len(kreps)
    /\ LET r == GetSharedFunctionReference(kfns, kreps[kidx].track)
       IN /\ kfns' = r.fns
          /\ kreps' = [kreps EXCEPT ![kidx].trackByFn = << r.ref >>]
    /\ kidx' = kidx + 1
    /\ UNCHANGED kpc
    /\ UNCHANGED <<tvars, evars, fvars, vvars, svars, nvars, rvars>>

\* the loop is exhausted: generateTrackFns returns
GenerateTrackFnsReturn ==
    /\ kpc = "running"
    /\ kidx > Len(kreps)
    /\ kpc' = "done"
    /\ UNCHANGED <<kreps, kfns, kidx>>
    /\ UNCHANGED <<tvars, evars, fvars, vvars, svars, nvars, rvars>>

GenerateTrackFnsNext == GenerateTrackFn \/ GenerateTrackFnsReturn

GenerateTrackFnsIdle ==
    /\ kreps = << >>
    /\ kfns = << >>
    /\ kidx = 1
    /\ kpc = "idle"

(***************************************************************************)
(* The repeater at run time: `@for (item of items; track item; let idx =   *)
(* $index) {{{item}}({{idx}})|}`. The reconciler of the runtime is not     *)
(* part of the sources; it is modelled from the end-to-end scenario of the *)
(* specification and from the acceptance tests, which give the collection  *)
(* changes and the text expected after each detectChanges.                 *)
(***************************************************************************)
Items == 1..MaxItem

\* the collections: items without repetition, tracked by identity
Collections ==
    {c \in UNION {[1..n -> Items] : n \in 0..MaxLen} :
        \A i, j \in 1..Len(c) : i # j => c[i] # c[j]}

EmbeddedView(item, index, id) == [item |-> item, index |-> index, id |-> id]

\* the live view whose tracking key is item, Null if there is none
LiveView(views, item) ==
    IF \E k \in 1..Len(views) : views[k].item = item
    THEN << CHOOSE k \in 1..Len(views) : views[k].item = item >>
    ELSE Null

\* how many of the first n items have no live view
Created(views, items, n) == Cardinality({k \in 1..n : LiveView(views, items[k]) = Null})

\* mutant: every view is destroyed and built again
ReconcileRebuildAll(views, items, next) ==
    [views     |-> [i \in 1..Len(items) |-> EmbeddedView(items[i], i - 1, next + i - 1)],
     destroyed |-> {views[k].id : k \in 1..Len(views)},
     next      |-> next + Len(items)]

\* mutant: a view that is re-used keeps the index it was created with
ReconcileStaleIndex(views, items, next) ==
    [views     |-> [i \in 1..Len(items) |->
                       IF LiveView(views, items[i]) # Null
                       THEN views[LiveView(views, items[i])[1]]
                       ELSE EmbeddedView(items[i], i - 1, next + Created(views, items, i) - 1)],
     destroyed |-> {views[k].id : k \in {k \in 1..Len(views) :
                        \A i \in 1..Len(items) : items[i] # views[k].item}},
     next      |-> next + Created(views, items, Len(items))]

\* the live views after the collection is walked: the view of a key that is
\* still there is re-used, moved to its place and given its index, a view is
\* created for a new key, and the view of a key that is gone is destroyed
Reconcile(views, items, next) ==
    [views     |-> [i \in 1..Len(items) |->
                       IF LiveView(views, items[i]) # Null
                       THEN EmbeddedView(items[i], i - 1, views[LiveView(views, items[i])[1]].id)
                       ELSE EmbeddedView(items[i], i - 1, next + Created(views, items, i) - 1)],
     destroyed |-> {views[k].id : k \in {k \in 1..Len(views) :
                        \A i \in 1..Len(items) : items[i] # views[k].item}},
     next      |-> next + Created(views, items, Len(items))]

\* the text of the views: {{item}}({{idx}})| per view
RECURSIVE TextContent(_)
TextContent(views) ==
    IF Len(views) = 0 THEN << >>
    ELSE ToDecimal(views[1].item) \o << 40 >> \o ToDecimal(views[1].index) \o << 41, 124 >>
             \o TextContent(Tail(views))

\* TestBed.createComponent: nothing is rendered before the first detectChanges
RepeaterInit ==
    /\ ritems \in Collections
    /\ rviews = << >>
    /\ rdestroyed = {}
    /\ rnext = 1
    /\ rtext = << >>
    /\ rpc = "dirty"

\* fixture.detectChanges()
DetectChanges ==
    /\ rpc = "dirty"
    /\ LET r == Reconcile(rviews, ritems, rnext)
       IN /\ rviews' = r.views
          /\ rdestroyed' = r.destroyed
          /\ rnext' = r.next
          /\ rtext' = TextContent(r.views)
    /\ rpc' = "clean"
    /\ UNCHANGED ritems
    /\ UNCHANGED <<tvars, evars, fvars, vvars, svars, nvars, kvars>>

\* items.pop()
ItemsPop ==
    /\ rpc = "clean" /\ rnext <= MaxViewIds
    /\ Len(ritems) > 0
    /\ ritems' = SubSeq(ritems, 1, Len(ritems) - 1)
    /\ rpc' = "dirty"
    /\ UNCHANGED <<rviews, rdestroyed, rnext, rtext>>
    /\ UNCHANGED <<tvars, evars, fvars, vvars, svars, nvars, kvars>>

\* items.push(x)
ItemsPush ==
    /\ rpc = "clean" /\ rnext <= MaxViewIds
    /\ \E x \in Items :
          /\ Append(ritems, x) \in Collections
          /\ ritems' = Append(ritems, x)
    /\ rpc' = "dirty"
    /\ UNCHANGED <<rviews, rdestroyed, rnext, rtext>>
    /\ UNCHANGED <<tvars, evars, fvars, vvars, svars, nvars, kvars>>

\* items.splice(i, 1): delete in the middle
ItemsSpliceDelete ==
    /\ rpc = "clean" /\ rnext <= MaxViewIds
    /\ \E i \in 1..Len(ritems) :
          ritems' = SubSeq(ritems, 1, i - 1) \o SubSeq(ritems, i + 1, Len(ritems))
    /\ rpc' = "dirty"
    /\ UNCHANGED <<rviews, rdestroyed, rnext, rtext>>
    /\ UNCHANGED <<tvars, evars, fvars, vvars, svars, nvars, kvars>>

\* items.splice(i, 0, x): add in the middle
ItemsSpliceInsert ==
    /\ rpc = "clean" /\ rnext <= MaxViewIds
    /\ \E i \in 1..Len(ritems) : \E x \in Items :
          LET c == SubSeq(ritems, 1, i - 1) \o << x >> \o SubSeq(ritems, i, Len(ritems))
          IN  /\ c \in Collections
              /\ ritems' = c
    /\ rpc' = "dirty"
    /\ UNCHANGED <<rviews, rdestroyed, rnext, rtext>>
    /\ UNCHANGED <<tvars, evars, fvars, vvars, svars, nvars, kvars>>

\* items[i] = b; items[j] = a: two items change places
ItemsSwap ==
    /\ rpc = "clean" /\ rnext <= MaxViewIds
    /\ \E i, j \in 1..Len(ritems) :
          /\ i < j
          /\ ritems' = [ritems EXCEPT ![i] = ritems[j], ![j] = ritems[i]]
    /\ rpc' = "dirty"
    /\ UNCHANGED <<rviews, rdestroyed, rnext, rtext>>
    /\ UNCHANGED <<tvars, evars, fvars, vvars, svars, nvars, kvars>>

\* items = [...]: the collection is replaced by another
ItemsReplace ==
    /\ rpc = "clean" /\ rnext <= MaxViewIds
    /\ ritems' \in Collections
    /\ ritems' # ritems
    /\ rpc' = "dirty"
    /\ UNCHANGED <<rviews, rdestroyed, rnext, rtext>>
    /\ UNCHANGED <<tvars, evars, fvars, vvars, svars, nvars, kvars>>

RepeaterNext ==
    \/ DetectChanges
    \/ ItemsPop
    \/ ItemsPush
    \/ ItemsSpliceDelete
    \/ ItemsSpliceInsert
    \/ ItemsSwap
    \/ ItemsReplace

RepeaterIdle ==
    /\ ritems = << >>
    /\ rviews = << >>
    /\ rdestroyed = {}
    /\ rnext = 1
    /\ rtext = << >>
    /\ rpc = "idle"

vars == <<tvars, evars, fvars, vvars, svars, nvars, kvars, rvars>>

\* each specification starts its own machine and holds the others at rest
TransformStart ==
    TransformInit /\ EmitIdle /\ FormatIdle /\ FormatValueIdle
    /\ AllocateSlotsIdle /\ ResolveNamesIdle /\ GenerateTrackFnsIdle /\ RepeaterIdle

EmitStart ==
    EmitInit /\ TransformIdle /\ FormatIdle /\ FormatValueIdle
    /\ AllocateSlotsIdle /\ ResolveNamesIdle /\ GenerateTrackFnsIdle /\ RepeaterIdle

FormatStart ==
    FormatInit /\ TransformIdle /\ EmitIdle /\ FormatValueIdle
    /\ AllocateSlotsIdle /\ ResolveNamesIdle /\ GenerateTrackFnsIdle /\ RepeaterIdle

FormatValueStart ==
    FormatValueInit /\ TransformIdle /\ EmitIdle /\ FormatIdle
    /\ AllocateSlotsIdle /\ ResolveNamesIdle /\ GenerateTrackFnsIdle /\ RepeaterIdle

SpecTransform == TransformStart /\ [][TransformNext]_vars

SpecEmit == EmitStart /\ [][EmitNext]_vars

SpecFormat == FormatStart /\ [][FormatNext]_vars

SpecFormatValue == FormatValueStart /\ [][FormatValueNext]_vars

FormatOrderStart ==
    FormatOrderInit /\ TransformIdle /\ EmitIdle /\ FormatValueIdle
    /\ AllocateSlotsIdle /\ ResolveNamesIdle /\ GenerateTrackFnsIdle /\ RepeaterIdle

SpecFormatOrder == FormatOrderStart /\ [][FormatNext]_vars

AllocateSlotsStart ==
    AllocateSlotsInit /\ TransformIdle /\ EmitIdle /\ FormatIdle /\ FormatValueIdle
    /\ ResolveNamesIdle /\ GenerateTrackFnsIdle /\ RepeaterIdle

SpecAllocateSlots == AllocateSlotsStart /\ [][AllocateSlotsNext]_vars

ResolveNamesStart ==
    ResolveNamesInit /\ TransformIdle /\ EmitIdle /\ FormatIdle /\ FormatValueIdle
    /\ AllocateSlotsIdle /\ GenerateTrackFnsIdle /\ RepeaterIdle

SpecResolveNames == ResolveNamesStart /\ [][ResolveNamesNext]_vars

GenerateTrackFnsStart ==
    GenerateTrackFnsInit /\ TransformIdle /\ EmitIdle /\ FormatIdle /\ FormatValueIdle
    /\ AllocateSlotsIdle /\ ResolveNamesIdle /\ RepeaterIdle

SpecGenerateTrackFns == GenerateTrackFnsStart /\ [][GenerateTrackFnsNext]_vars

RepeaterStart ==
    RepeaterInit /\ TransformIdle /\ EmitIdle /\ FormatIdle /\ FormatValueIdle
    /\ AllocateSlotsIdle /\ ResolveNamesIdle /\ GenerateTrackFnsIdle

SpecRepeater == RepeaterStart /\ [][RepeaterNext]_vars

EmitGraphStart ==
    EmitGraphInit /\ TransformIdle /\ FormatIdle /\ FormatValueIdle
    /\ AllocateSlotsIdle /\ ResolveNamesIdle /\ GenerateTrackFnsIdle /\ RepeaterIdle

\* emission is a sequential program: a step that can be taken is taken
SpecEmitGraph == EmitGraphStart /\ [][EmitNext]_vars /\ WF_vars(EmitNext)

(***************************************************************************)
(* Properties of transform.                                                *)
(***************************************************************************)
\* the functions of the first n phases of the list that are tagged k or Both
RECURSIVE TaggedUpTo(_, _)
TaggedUpTo(k, n) ==
    IF n = 0 THEN << >>
    ELSE IF phases[n].kind \in {k, "Both"}
         THEN Append(TaggedUpTo(k, n - 1), phases[n].fn)
         ELSE TaggedUpTo(k, n - 1)

\* C1: for a job of kind K, transform invokes exactly the phases of the list
\* that are tagged K or Both, each once and in list order, whatever the phases
\* leave in the job: the invocations made so far are those of the phases
\* before the loop's position (the throwing phase included when one throws),
\* all of them once transform has returned, and none is tagged with the other
\* kind.
C1_TransformRunsApplicablePhases ==
    /\ tstate = "running" => ran = TaggedUpTo(tkind, tpc - 1)
    /\ tstate = "thrown" => ran = TaggedUpTo(tkind, tpc)
    /\ tstate = "returned" => ran = TaggedUpTo(tkind, NumPhases)
    /\ \A i \in 1..Len(ran) : \A j \in 1..NumPhases :
          phases[j].fn = ran[i] => phases[j].kind \in {tkind, "Both"}
    /\ \A i, j \in 1..Len(ran) : i # j => ran[i] # ran[j]

\* a host-binding job whose transform has returned, the job changed by a phase
C1_Witness ==
    /\ tstate = "returned"
    /\ tkind = "Host"
    /\ tjob # 0
    /\ Len(ran) > 1

(***************************************************************************)
(* Properties of emission.                                                 *)
(***************************************************************************)
EmitTerminated == epc \in {"done", "failed"}

Units == {ejob.units[i] : i \in 1..Len(ejob.units)}

HasUnlowered(unit) ==
    \/ \E i \in 1..Len(unit.create) : unit.create[i].kind # "Statement"
    \/ \E i \in 1..Len(unit.update) : unit.update[i].kind # "Statement"

\* C2: emission fails with an assertion whenever a unit of the job holds, in
\* its create or its update list, an operation that is not a Statement:
\* emission of such a job never returns, and it ends only by failing.
C2_UnloweredOpFailsEmission ==
    (\E unit \in Units : HasUnlowered(unit)) =>
        /\ epc # "done"
        /\ eresult = Null
        /\ EmitTerminated => eerror \in {"unnamed", "create", "update"}
        /\ ~EmitTerminated => ENABLED EmitNext

\* an embedded view with an unlowered update operation, found after another
\* view was declared
C2_Witness ==
    /\ epc = "failed"
    /\ eerror = "update"
    /\ ejob.kind = "Tmpl"
    /\ Len(pool) > Len(pool0)

FullyLowered == \A unit \in Units : ~HasUnlowered(unit)

AllNamed == \A unit \in Units : unit.fnName # Null

\* C3, as stated: on a job whose operations are all Statements emission never
\* fails.
C3_Original_LoweredNeverFails ==
    FullyLowered => epc # "failed"

\* C3, amended: on a job whose operations are all Statements and whose views
\* are all named, emission never fails and runs on until it returns.
C3_LoweredAndNamedNeverFails ==
    (FullyLowered /\ AllNamed) =>
        /\ epc # "failed"
        /\ eerror = "none"
        /\ ~EmitTerminated => ENABLED EmitNext

\* a fully lowered, named template job of three views, emitted
C3_Witness ==
    /\ FullyLowered
    /\ AllNamed
    /\ epc = "done"
    /\ ejob.kind = "Tmpl"
    /\ Len(ejob.units) = 3
    /\ \E unit \in Units : Len(unit.create) > 0

\* the position in job.units of the view with the given xref
UnitOf(x) == CHOOSE i \in 1..Len(ejob.units) : ejob.units[i].xref = x

\* d is a proper descendant of a: a is reached from d by parent links
RECURSIVE IsDescendant(_, _)
IsDescendant(d, a) ==
    /\ ejob.units[d].parent # Null
    /\ LET p == UnitOf(ejob.units[d].parent[1]) IN p = a \/ IsDescendant(p, a)

\* the positions in the pool where the view at position u is declared
DeclaredAt(u) ==
    {k \in (Len(pool0) + 1)..Len(pool) : pool[k].decl = ejob.units[u].fnName}

\* the statements of a function's blocks, in order
RECURSIVE BodyStatements(_)
BodyStatements(body) ==
    IF Len(body) = 0 THEN << >> ELSE body[1].then \o BodyStatements(Tail(body))

\* C4: emitTemplateFn returns the function of the root view, and declares in
\* the pool the function of every embedded view, children before parents:
\* when a view is declared, all of its descendants have been declared before.
C4_RootReturnedChildrenDeclaredFirst ==
    ejob.kind = "Tmpl" =>
        /\ SubSeq(pool, 1, Len(pool0)) = pool0
        /\ \A k \in (Len(pool0) + 1)..Len(pool) :
              \E u \in 2..Len(ejob.units) : k \in DeclaredAt(u)
        /\ \A u \in 2..Len(ejob.units) : \A k \in DeclaredAt(u) :
              \A d \in 2..Len(ejob.units) :
                 IsDescendant(d, u) => \E kd \in DeclaredAt(d) : kd < k
        /\ epc = "done" =>
              /\ eresult # Null
              /\ eresult.name = ejob.units[1].fnName
              /\ BodyStatements(eresult.body)
                    = StatementsOf(ejob.units[1].create) \o StatementsOf(ejob.units[1].update)
              /\ \A u \in 2..Len(ejob.units) : DeclaredAt(u) # {}

\* a root, its child and its grandchild, emitted: the grandchild is declared
\* first
C4_Witness ==
    /\ epc = "done"
    /\ ejob.kind = "Tmpl"
    /\ Len(ejob.units) = 3
    /\ ejob.units[3].parent = << ejob.units[2].xref >>
    /\ Len(pool) = Len(pool0) + 2
    /\ pool[Len(pool0) + 1].decl = ejob.units[3].fnName

\* the functions emission has produced so far
EmittedFns ==
    {pool[k].fn : k \in (Len(pool0) + 1)..Len(pool)}
        \cup (IF rootFn # Null THEN {rootFn} ELSE {})
        \cup (IF eresult # Null THEN {eresult} ELSE {})

\* the block the claim describes: statements under the test rf & flag
GuardedBlock(flag, statements) ==
    [cond |-> [op |-> "&", lhs |-> "rf", rhs |-> flag], then |-> statements]

\* the statements of the n operations of list l of the view with xref x
ListStatements(x, l, n) == [i \in 1..n |-> Stmt(x, l, i)]

\* C5: the function emitted for a view takes (rf, ctx); its body is the create
\* block, guarded by rf & 1 and holding the create statements in list order,
\* then the update block, guarded by rf & 2 and holding the update statements
\* in list order; a block without statements is left out.
C5_FunctionIsCreateThenUpdateBlock ==
    \A fn \in EmittedFns :
        \E unit \in Units :
           LET c == ListStatements(unit.xref, "create", Len(unit.create))
               u == ListStatements(unit.xref, "update", Len(unit.update))
           IN /\ fn.name = unit.fnName
              /\ fn.params = << "rf", "ctx" >>
              /\ fn.body = (IF Len(c) = 0 THEN << >> ELSE << GuardedBlock(1, c) >>)
                              \o (IF Len(u) = 0 THEN << >> ELSE << GuardedBlock(2, u) >>)

\* an embedded view with a create statement and an update statement,
\* declared in the pool
C5_Witness ==
    \E k \in (Len(pool0) + 1)..Len(pool) :
        /\ Len(pool[k].fn.body) = 2
        /\ pool[k].fn.body[1].cond.rhs = 1
        /\ pool[k].fn.body[2].cond.rhs = 2

HostListsEmpty == Len(ejob.units[1].create) = 0 /\ Len(ejob.units[1].update) = 0

\* C6, as stated: for a host-binding job whose create and update lists are
\* both empty emitHostBindingFunction returns null; when one of them is not
\* empty and both are fully lowered it returns a function.
C6_Original_HostNullIffEmpty ==
    (ejob.kind = "Host" /\ EmitTerminated /\ FullyLowered) =>
        /\ epc = "done"
        /\ HostListsEmpty => eresult = Null
        /\ ~HostListsEmpty => eresult # Null

\* C6, amended: for a host-binding job whose root is named and whose create
\* and update lists are both empty emitHostBindingFunction returns null; when
\* the root is named, one of the lists is not empty and both are fully lowered
\* it returns one function, that of the root.
C6_NamedHostNullIffEmpty ==
    (ejob.kind = "Host" /\ FullyLowered /\ AllNamed) =>
        /\ epc # "failed"
        /\ ~EmitTerminated => ENABLED EmitNext
        /\ epc = "done" =>
              /\ HostListsEmpty => eresult = Null
              /\ ~HostListsEmpty =>
                    /\ eresult # Null
                    /\ eresult.name = ejob.units[1].fnName
                    /\ BodyStatements(eresult.body)
                          = StatementsOf(ejob.units[1].create)
                               \o StatementsOf(ejob.units[1].update)
        /\ pool = pool0

\* a named host-binding job without operations, emitted
C6_Witness ==
    /\ ejob.kind = "Host"
    /\ AllNamed
    /\ HostListsEmpty
    /\ epc = "done"
    /\ eresult = Null

(***************************************************************************)
(* Properties of i18n parameter formatting.                                *)
(***************************************************************************)
\* the operations of the create lists of a job
CreateOps(job) ==
    UNION {{job[u].create[i] : i \in 1..Len(job[u].create)} : u \in 1..Len(job)}

\* the root messages of the job once formatI18nParams has run
FormattedRoots ==
    IF fpc # "done" THEN {}
    ELSE {op \in CreateOps(fjob) : op.kind = "ExtractedMessage" /\ op.isRoot}

\* the root message as it was handed in
InputOf(op) ==
    CHOOSE in \in CreateOps(fjob0) : in.kind = "ExtractedMessage" /\ in.isRoot

Entries(map) == {map[i] : i \in 1..Len(map)}

KeysAscending(map) ==
    \A i \in 1..(Len(map) - 1) : StrLess(map[i].key, map[i + 1].key)

\* C7: the placeholders of the maps formatParams returns (formattedParams and
\* formattedPostprocessingParams of a root message) are in ascending order of
\* placeholder name, whatever the insertion order of the input and whatever
\* characters the names contain.
C7_FormattedKeysAscending ==
    \A op \in FormattedRoots :
        /\ KeysAscending(op.formattedParams[1])
        /\ KeysAscending(op.formattedPostprocessingParams[1])

\* formatValue(v1) | formatValue(v2) | ... | formatValue(vk)
RECURSIVE BarSeparated(_)
BarSeparated(values) ==
    IF Len(values) = 1 THEN FormatValue(values[1])
    ELSE FormatValue(values[1]) \o << LIST_DELIMITER >> \o BarSeparated(Tail(values))

\* the literal the claim gives a placeholder with at least one value
ExpectedLiteral(values) ==
    IF Len(values) = 1 THEN FormatValue(values[1])
    ELSE << LIST_START_MARKER >> \o BarSeparated(values) \o << LIST_END_MARKER >>

\* every placeholder of params that has a value is formatted as the claim says
FormattedAsListed(params, formatted) ==
    \A e \in Entries(params) :
        Len(e.values) >= 1 =>
            {f.value : f \in {g \in Entries(formatted) : g.key = e.key}}
                = {[literal |-> ExpectedLiteral(e.values)]}

\* C8: a placeholder with one value v is formatted as formatValue(v); one with
\* k >= 2 values as '[' formatValue(v1) '|' ... '|' formatValue(vk) ']', the
\* values in the order of the input list, none dropped and none repeated.
C8_SingleValueBareListBracketed ==
    \A op \in FormattedRoots :
        /\ FormattedAsListed(InputOf(op).params, op.formattedParams[1])
        /\ FormattedAsListed(InputOf(op).postprocessingParams,
                             op.formattedPostprocessingParams[1])

\* a root message with a placeholder of two different values and another of
\* one value, formatted
C8_Witness ==
    \E op \in FormattedRoots :
        /\ \E e \in Entries(InputOf(op).params) :
              Len(e.values) = 2 /\ e.values[1] # e.values[2]
        /\ \E e \in Entries(InputOf(op).params) : Len(e.values) = 1
        /\ Len(op.formattedParams[1]) = 2

\* the keys of formatted are the placeholders of params that have a value
KeysAreTheNonEmpty(params, formatted) ==
    /\ {f.key : f \in Entries(formatted)}
          = {e.key : e \in {g \in Entries(params) : Len(g.values) > 0}}
    /\ \A i, j \in 1..Len(formatted) : i # j => formatted[i].key # formatted[j].key

\* C9: the keys of the map formatParams returns are exactly the input
\* placeholders whose value list is not empty: a placeholder with no value is
\* left out, and no other placeholder is left out or added.
C9_KeysAreNonEmptyPlaceholders ==
    \A op \in FormattedRoots :
        /\ KeysAreTheNonEmpty(InputOf(op).params, op.formattedParams[1])
        /\ KeysAreTheNonEmpty(InputOf(op).postprocessingParams,
                              op.formattedPostprocessingParams[1])

\* a root message with one placeholder without values and one with a value,
\* formatted
C9_Witness ==
    \E op \in FormattedRoots :
        /\ \E e \in Entries(InputOf(op).params) : Len(e.values) = 0
        /\ \E e \in Entries(InputOf(op).params) : Len(e.values) > 0
        /\ Len(op.formattedParams[1]) = 1

WithoutFlag(value, flag) == [value EXCEPT !.flags = @ \ {flag}]

\* C10: a value flagged both OpenTag and CloseTag is written as its open form
\* followed by its close form: formatValue(v) is formatValue(v without
\* CloseTag) followed by formatValue(v without OpenTag), whatever the
\* element and template flags, the raw value and the sub-template index.
C10_SelfClosingIsOpenThenClose ==
    (fout # << >> /\ HasFlag(fval, "OpenTag") /\ HasFlag(fval, "CloseTag")) =>
        /\ fout = FormatValue(WithoutFlag(fval, "CloseTag"))
                     \o FormatValue(WithoutFlag(fval, "OpenTag"))
        /\ Len(fout) >= 4
        /\ \E k \in 2..(Len(fout) - 2) : fout[k] = ESCAPE /\ fout[k + 1] = ESCAPE

\* a self-closing template tag of sub-template 10, formatted
C10_Witness ==
    /\ fout # << >>
    /\ fval.flags = {"TemplateTag", "OpenTag", "CloseTag"}
    /\ fval.subTemplateIndex = << 10 >>
    /\ fval.value = Num(10)

\* the decimal digits of a number below 100, most significant first
Digits(n) == IF n < 10 THEN << 48 + n >> ELSE << 48 + (n \div 10), 48 + (n % 10) >>

\* the five parts of a single segment, in their order
SegmentParts(value) ==
    << IF HasFlag(value, "CloseTag")
          /\ (HasFlag(value, "ElementTag") \/ HasFlag(value, "TemplateTag"))
       THEN << TAG_CLOSE_MARKER >> ELSE << >>,
       IF HasFlag(value, "ElementTag") THEN << ELEMENT_MARKER >>
       ELSE IF HasFlag(value, "TemplateTag") THEN << TEMPLATE_MARKER >> ELSE << >>,
       IF "num" \in DOMAIN value.value THEN Digits(value.value.num) ELSE value.value.str,
       IF value.subTemplateIndex = << >> THEN << >>
       ELSE << CONTEXT_MARKER >> \o Digits(value.subTemplateIndex[1]) >>

\* C11: a value that is not both an open and a close tag is written as
\* exactly: the escape character; "/" if it is flagged CloseTag and carries
\* the element or the template marker; "#" if it is flagged ElementTag, else
\* "*" if it is flagged TemplateTag; the raw value; ":" and the sub-template
\* index if that is not null, index 0 giving ":0"; the escape character.
\* Nothing else is written and the parts come in no other order.
C11_SingleSegmentLayout ==
    (fout # << >> /\ ~(HasFlag(fval, "OpenTag") /\ HasFlag(fval, "CloseTag"))) =>
        LET parts == SegmentParts(fval)
        IN  /\ fout = << ESCAPE >> \o parts[1] \o parts[2] \o parts[3] \o parts[4]
                          \o << ESCAPE >>
            /\ fval.subTemplateIndex = << 0 >> =>
                   SubSeq(fout, Len(fout) - 2, Len(fout)) = << CONTEXT_MARKER, 48, ESCAPE >>

\* a closing tag flagged element and template alike, of sub-template 0,
\* formatted as "�/#10:0�"
C11_Witness ==
    /\ fval.flags = {"ElementTag", "TemplateTag", "CloseTag"}
    /\ fval.subTemplateIndex = << 0 >>
    /\ fval.value = Num(10)
    /\ fout = << ESCAPE, TAG_CLOSE_MARKER, ELEMENT_MARKER, 49, 48, CONTEXT_MARKER, 48, ESCAPE >>

\* C12: after formatI18nParams a root message has needsPostprocessing = TRUE
\* exactly when its post-processing params map is not empty or at least one
\* placeholder of its normal params has more than one value.
C12_NeedsPostprocessingIff ==
    \A op \in FormattedRoots :
        op.needsPostprocessing =
            (\/ InputOf(op).postprocessingParams # << >>
             \/ \E e \in Entries(InputOf(op).params) : Len(e.values) >= 2)

\* a formatted root message without post-processing params whose one
\* placeholder of two values sets the flag
C12_Witness ==
    \E op \in FormattedRoots :
        /\ InputOf(op).postprocessingParams = << >>
        /\ Len(InputOf(op).params) = 1
        /\ Len(InputOf(op).params[1].values) = 2
        /\ op.needsPostprocessing

\* a formatted root message whose placeholders have one value each and whose
\* post-processing params are empty leaves the flag FALSE
C12_WitnessUnset ==
    \E op \in FormattedRoots :
        /\ InputOf(op).postprocessingParams = << >>
        /\ Len(InputOf(op).params) = 2
        /\ \A e \in Entries(InputOf(op).params) : Len(e.values) = 1
        /\ ~op.needsPostprocessing

\* how often the phase function f has been invoked
Invocations(f) == Cardinality({i \in 1..Len(ran) : ran[i] = f})

\* C13: when a phase fails during transform, no later phase is run, the
\* failing phase is not retried, no earlier phase is run again, and transform
\* fails instead of returning: the loop stands at the failing phase, which is
\* the last invocation, every invocation was made once, and no step of
\* transform is left to take.
C13_FailedPhaseAbortsTransform ==
    terror # << >> =>
        /\ tstate = "thrown"
        /\ terror = << phases[tpc].fn >>
        /\ ran # << >> /\ ran[Len(ran)] = terror[1]
        /\ ran = TaggedUpTo(tkind, tpc)
        /\ \A i \in 1..Len(ran) : Invocations(ran[i]) = 1
        /\ \A j \in (tpc + 1)..NumPhases : Invocations(phases[j].fn) = 0
        /\ ~ENABLED TransformNext

\* a template job whose transform failed in a phase after others had run and
\* before the last phase
C13_Witness ==
    /\ tkind = "Tmpl"
    /\ tstate = "thrown"
    /\ terror # << >>
    /\ Len(ran) > 2
    /\ tpc < NumPhases

\* C14: a failed emission produces no output: whenever emitTemplateFn fails,
\* because some view is unnamed or not fully lowered, the statement list of
\* the constant pool is exactly what it was before the call.
C14_FailedEmissionLeavesPoolUnchanged ==
    (ejob.kind = "Tmpl" /\ epc = "failed") => pool = pool0

\* the phase function f has been invoked
Ran(f) == \E i \in 1..Len(ran) : ran[i] = f

\* f was invoked, and g was invoked after it
RanBefore(f, g) == \E i, j \in 1..Len(ran) : i < j /\ ran[i] = f /\ ran[j] = g

\* C15 as stated: in every run of transform, for template jobs and for
\* host-binding jobs alike, whenever resolveNames is executed
\* generateVariables has already been executed on that job.
C15_Original_ResolveNamesAfterGenerateVariables ==
    Ran("resolveNames") => RanBefore("generateVariables", "resolveNames")

\* C15, amended: in every run of transform on a template job, whenever
\* resolveNames is executed generateVariables has already been executed on
\* that job; on a host-binding job resolveNames is executed and
\* generateVariables, a template-only phase, never is.
C15_TemplateResolveNamesAfterGenerateVariables ==
    /\ (tkind = "Tmpl" /\ Ran("resolveNames")) =>
           RanBefore("generateVariables", "resolveNames")
    /\ tkind = "Host" => ~Ran("generateVariables")
    /\ (tkind = "Host" /\ tstate = "returned") => Ran("resolveNames")

\* a template job whose transform has just invoked resolveNames
C15_Witness ==
    /\ tkind = "Tmpl"
    /\ tstate = "running"
    /\ ran # << >>
    /\ ran[Len(ran)] = "resolveNames"

\* a host-binding job whose transform returned after resolveNames and
\* without generateVariables
C15_WitnessHost ==
    /\ tkind = "Host"
    /\ tstate = "returned"
    /\ Ran("resolveNames")
    /\ ~Ran("generateVariables")

\* the phases the claim has run before slot allocation
BeforeAllocateSlots ==
    {"orderOps", "generateConditionalExpressions", "createPipes", "configureDeferInstructions"}

\* C16: in a template job allocateSlots runs after orderOps and after
\* generateConditionalExpressions, createPipes and
\* configureDeferInstructions, the phases that add slot-consuming operations
\* to a create list, and orderOps does not run again after allocateSlots.
C16_AllocateSlotsAfterOrdering ==
    tkind = "Tmpl" =>
        /\ Ran("allocateSlots") =>
               \A f \in BeforeAllocateSlots : RanBefore(f, "allocateSlots")
        /\ ~RanBefore("allocateSlots", "orderOps")
        /\ tstate = "returned" => Ran("allocateSlots")

\* a template job whose transform returned, orderOps invoked once and
\* allocateSlots after it
C16_Witness ==
    /\ tkind = "Tmpl"
    /\ tstate = "returned"
    /\ RanBefore("orderOps", "allocateSlots")
    /\ Invocations("orderOps") = 1

\* the view whose emission failed: the root when emitTemplateFn or
\* emitHostBindingFunction failed on it, else the view on top of the calls of
\* emitChildViews
FailedView == IF estack = << >> THEN ejob.units[1] ELSE ejob.units[estack[Len(estack)].unit]

\* C17: emitting a view whose function name is null fails with the assertion
\* that the view is unnamed, for the root view, for any emitted embedded
\* view and for the host-binding root, whatever its operation lists hold,
\* lowered or not, and also when both lists are empty: a job with an unnamed
\* root goes from the call straight to that failure, a failure at an unnamed
\* view is that assertion and no other, and no job with an unnamed view is
\* emitted to the end.
C17_UnnamedViewFailsAssertion ==
    /\ (epc # "idle" /\ ejob.units[1].fnName = Null) =>
           /\ epc \in {"start", "failed"}
           /\ epc = "failed" => eerror = "unnamed"
    /\ (epc = "failed" /\ FailedView.fnName = Null) => eerror = "unnamed"
    /\ (\E unit \in Units : unit.fnName = Null) =>
           /\ epc # "done"
           /\ eresult = Null
           /\ ~EmitTerminated => ENABLED EmitNext

\* an unnamed embedded view with an operation that is not lowered, reached
\* after its named root was emitted: the failure is the assertion of the name
C17_Witness ==
    /\ epc = "failed"
    /\ eerror = "unnamed"
    /\ estack # << >>
    /\ FailedView.fnName = Null
    /\ HasUnlowered(FailedView)

\* an unnamed host-binding root with two empty lists, failed on its name
C17_WitnessHostEmpty ==
    /\ ejob.kind = "Host"
    /\ epc = "failed"
    /\ eerror = "unnamed"
    /\ ejob.units[1].create = << >>
    /\ ejob.units[1].update = << >>

\* the two messages of a job of two, once formatted
FormattedPair == IF fpc = "done" /\ Len(fjob[1].create) = 2 THEN << fjob[1].create >> ELSE << >>

\* C18: formatting does not depend on the order the params were inserted
\* in: two params maps that hold the same placeholder-to-value-list entries
\* but were populated in different insertion orders yield identical results
\* from formatParams, the same keys in the same iteration order with the
\* same literal strings, and the same needsPostprocessing flag.
C18_FormatIgnoresInsertionOrder ==
    \A pair \in {FormattedPair[i] : i \in 1..Len(FormattedPair)} :
        /\ pair[1].formattedParams = pair[2].formattedParams
        /\ pair[1].needsPostprocessing = pair[2].needsPostprocessing

(***************************************************************************)
(* Properties of slot allocation and of name resolution.                   *)
(***************************************************************************)
\* the positions of the operations of a create list that need storage
Consuming(create) == {i \in 1..Len(create) : create[i].numSlotsUsed > 0}

\* the slots the operation at position i reserves
RunOf(create, i) == create[i].slot[1]..(create[i].slot[1] + create[i].numSlotsUsed - 1)

\* the number of slots the first n operations of a create list need
RECURSIVE SlotsNeeded(_, _)
SlotsNeeded(create, n) ==
    IF n = 0 THEN 0 ELSE SlotsNeeded(create, n - 1) + create[n].numSlotsUsed

\* C19: after slot allocation, in every view the slots assigned to the
\* slot-consuming operations are unique within the view and densely packed
\* from the view's base offset, without gap and without duplicate: every
\* such operation has a slot, the runs reserved by two operations never
\* overlap, and together they are exactly base .. base + n - 1, n the number
\* of slots the view needs; a multi-slot entity reserves a contiguous run of
\* as many slots as it uses, its primary and empty block included.
C19_SlotsDenseAndUnique ==
    spc = "done" =>
        \A v \in 1..Len(sjob) :
            LET create == sjob[v].create
                base   == sjob[v].base
            IN  /\ \A i \in 1..Len(create) :
                       (create[i].slot # Null) = (i \in Consuming(create))
                /\ \A i, j \in Consuming(create) :
                       i # j => RunOf(create, i) \cap RunOf(create, j) = {}
                /\ UNION {RunOf(create, i) : i \in Consuming(create)}
                       = base..(base + SlotsNeeded(create, Len(create)) - 1)

\* a view of base offset 1 whose create list is a two-slot entity followed
\* by a one-slot operation, allocated: slots 1 and 3
C19_Witness ==
    /\ spc = "done"
    /\ \E v \in 1..Len(sjob) :
          /\ sjob[v].base = 1
          /\ Len(sjob[v].create) = 2
          /\ sjob[v].create[1].numSlotsUsed = 2
          /\ sjob[v].create[1].slot = << 1 >>
          /\ sjob[v].create[2].slot = << 3 >>

\* the views from v up to the root, v first
RECURSIVE AncestryChain(_)
AncestryChain(v) ==
    IF nviews[v].parent = Null THEN << v >>
    ELSE << v >> \o AncestryChain(nviews[v].parent[1])

C20_WitnessSibling ==
    /\ npc = "resolved"
    /\ Len(nviews) = 3
    /\ nviews[2].parent = << 1 >>
    /\ nviews[3].parent = << 1 >>
    /\ "item" \in nviews[1].declares
    /\ "item" \in nviews[2].declares
    /\ "item" \notin nviews[3].declares
    /\ nref = [view |-> 3, name |-> "item"]
    /\ nres = << 1 >>

(***************************************************************************)
(* Properties of the tracking functions.                                   *)
(***************************************************************************)
\* the repeaters once generateTrackFns has returned
TrackedRepeaters == IF kpc = "done" THEN 1..Len(kreps) ELSE {}

C21_WitnessImpure ==
    /\ kpc = "done"
    /\ Len(kreps) = 2
    /\ kreps[1].track.impure
    /\ kreps[1].track = kreps[2].track
    /\ kreps[1].trackByFn = kreps[2].trackByFn

(***************************************************************************)
(* Properties of the repeater at run time.                                 *)
(***************************************************************************)
\* item(index)| for the items from position i on
RECURSIVE ItemsText(_, _)
ItemsText(items, i) ==
    IF i > Len(items) THEN << >>
    ELSE Digits(items[i]) \o << 40 >> \o Digits(i - 1) \o << 41, 124 >>
             \o ItemsText(items, i + 1)

ViewsOf(views) == {views[k] : k \in 1..Len(views)}

\* what one detectChanges does to the views: the view of an item whose key
\* was there is the view it had, a view that is new has an id no view had,
\* and the views destroyed are those of the keys that are gone
ReusesViews(before, after, destroyed, items) ==
    /\ \A v \in ViewsOf(after) :
           IF \E p \in ViewsOf(before) : p.item = v.item
           THEN \E p \in ViewsOf(before) : p.item = v.item /\ p.id = v.id
           ELSE \A p \in ViewsOf(before) : p.id # v.id
    /\ destroyed = {p.id : p \in {q \in ViewsOf(before) :
                                     \A i \in 1..Len(items) : items[i] # q.item}}
    /\ \A v \in ViewsOf(after) : v.id \notin destroyed

\* after a detectChanges the text is that of the collection, one view per
\* item, no two views the same
RendersCollection ==
    rpc = "clean" =>
        /\ rtext = ItemsText(ritems, 1)
        /\ Len(rviews) = Len(ritems)
        /\ \A i, j \in 1..Len(rviews) : i # j => rviews[i].id # rviews[j].id

\* C22: for a repeater tracked by item identity that renders item(index)|
\* per item, after any sequence of collection changes (remove last, append,
\* delete or insert in the middle, swap, replace), each followed by change
\* detection, the rendered text is the concatenation of item(index)| over
\* the current collection in its current order with the current indices;
\* in every change detection the view of an item whose tracking key
\* persists is re-used, a view is created only for a key that is new, and
\* only the views of removed items are destroyed.
C22_RepeaterRendersCollectionReusingViews ==
    /\ []RendersCollection
    /\ [][(rpc = "dirty" /\ rpc' = "clean") =>
              ReusesViews(rviews, rviews', rdestroyed', ritems')]_vars

\* the collection [1, 2, 3] after its last item was removed: "1(0)|2(1)|",
\* the views of 1 and 2 re-used and the view of 3 destroyed
C22_Witness ==
    /\ rpc = "clean"
    /\ ritems = << 1, 2 >>
    /\ rviews = << EmbeddedView(1, 0, 1), EmbeddedView(2, 1, 2) >>
    /\ rdestroyed = {3}
    /\ rnext = 4
    /\ rtext = << 49, 40, 48, 41, 124, 50, 40, 49, 41, 124 >>

\* the first and the last item of [1, 2, 3] changed places: "3(0)|2(1)|1(2)|"
\* with the three views re-used
C22_WitnessSwap ==
    /\ rpc = "clean"
    /\ rviews = << EmbeddedView(3, 0, 3), EmbeddedView(2, 1, 2), EmbeddedView(1, 2, 1) >>
    /\ rdestroyed = {}
    /\ rnext = 4
    /\ rtext = << 51, 40, 48, 41, 124, 50, 40, 49, 41, 124, 49, 40, 50, 41, 124 >>

(***************************************************************************)
(* Further properties of transform.                                        *)
(***************************************************************************)
\* C23: for both job kinds the lowering phase reify is executed by
\* transform, and every other phase that applies to the job, chain alone
\* excepted, is executed before it: once reify has run nothing but chain
\* runs, so no phase that could introduce an operation that is not a
\* Statement runs between reify and emission.
C23_ReifyLastButChain ==
    /\ tstate = "returned" =>
           /\ Ran("reify")
           /\ \A n \in 1..NumPhases :
                  (PhaseApplies(phases[n], tkind) /\ phases[n].fn \notin {"reify", "chain"})
                      => RanBefore(phases[n].fn, "reify")
    /\ \A i, j \in 1..Len(ran) : (ran[i] = "reify" /\ i < j) => ran[j] = "chain"

\* a host-binding job whose transform returned: reify ran after other phases
\* and chain after reify
C23_Witness ==
    /\ tkind = "Host"
    /\ tstate = "returned"
    /\ RanBefore("extractPureFunctions", "reify")
    /\ RanBefore("reify", "chain")
    /\ ran[Len(ran)] = "chain"

\* a template job whose transform returned, reify the last phase but chain
C23_WitnessTemplate ==
    /\ tkind = "Tmpl"
    /\ tstate = "returned"
    /\ Len(ran) > 2
    /\ ran[Len(ran) - 1] = "reify"

\* C24: in a template job formatI18nParams runs after the phases that
\* produce the message params it reads (extractI18nMessages,
\* resolveI18nElementPlaceholders, resolveI18nExpressionPlaceholders,
\* propogateI18nPlaceholders) and before collectI18nConsts, which consumes
\* the formatted params.
C24_FormatI18nParamsBetweenProducersAndConsumer ==
    tkind = "Tmpl" =>
        /\ Ran("formatI18nParams") =>
               \A f \in {"extractI18nMessages", "resolveI18nElementPlaceholders",
                         "resolveI18nExpressionPlaceholders", "propogateI18nPlaceholders"} :
                   RanBefore(f, "formatI18nParams")
        /\ Ran("collectI18nConsts") => RanBefore("formatI18nParams", "collectI18nConsts")
        /\ tstate = "returned" => Ran("formatI18nParams") /\ Ran("collectI18nConsts")

\* a template job whose transform has just invoked collectI18nConsts, after
\* formatI18nParams
C24_Witness ==
    /\ tkind = "Tmpl"
    /\ ran # << >>
    /\ ran[Len(ran)] = "collectI18nConsts"
    /\ RanBefore("propogateI18nPlaceholders", "formatI18nParams")

(***************************************************************************)
(* Properties of emission on jobs of arbitrary parent links.               *)
(***************************************************************************)
\* the position of the view the parent field of the view at u names, 0 if
\* the field is null or names no view of the job
ParentOf(u) ==
    IF ejob.units[u].parent = Null THEN 0
    ELSE IF \E v \in 1..Len(ejob.units) : ejob.units[u].parent = << ejob.units[v].xref >>
         THEN CHOOSE v \in 1..Len(ejob.units) : ejob.units[u].parent = << ejob.units[v].xref >>
         ELSE 0

\* the root is reached from the view at u in at most fuel parent links
RECURSIVE ReachesRoot(_, _)
ReachesRoot(u, fuel) ==
    \/ u = 1
    \/ /\ fuel > 0
       /\ ParentOf(u) # 0
       /\ ReachesRoot(ParentOf(u), fuel - 1)

Reached == {u \in 1..Len(ejob.units) : ReachesRoot(u, Len(ejob.units))}

\* the units of the job form a tree: the root's parent is null and every
\* other view hangs, by its parent links, under the root
IsTree ==
    /\ ejob.units[1].parent = Null
    /\ Reached = 1..Len(ejob.units)

C25_WitnessParentLater ==
    /\ epc = "done"
    /\ ejob.kind = "Tmpl"
    /\ IsTree
    /\ Len(ejob.units) = 3
    /\ ejob.units[2].parent = << 2 >>
    /\ ejob.units[3].parent = << 0 >>
    /\ pool[Len(pool0) + 1].decl = ejob.units[2].fnName


\* the view at position u passes every check of emitView
Emittable(u) == EmitView(ejob.units[u]).ok

\* the views the calls of emitChildViews in progress are working on
OnStack == {estack[k].unit : k \in 1..Len(estack)}

\* views that no chain of parent links leads from to the root are never
\* worked on, never declared and never the view emission fails at, and what
\* they hold does not decide whether emission fails
UnreachedUntouched ==
    ejob.kind = "Tmpl" =>
        /\ OnStack \subseteq Reached
        /\ \A u \in (1..Len(ejob.units)) \ Reached : DeclaredAt(u) = {}
        /\ epc = "failed" => \E u \in Reached : FailedView = ejob.units[u] /\ ~Emittable(u)
        /\ (EmitTerminated /\ \A u \in Reached : Emittable(u)) => epc = "done"

\* C26: emitChildViews terminates for every job whose units have unique
\* xrefs and whose root has a null parent, also when the parent links of
\* other units form a cycle or name a unit that does not exist; such units
\* are never reached from the root and are neither emitted nor checked.
C26_EmissionTerminatesOnAnyParentLinks ==
    /\ <>EmitTerminated
    /\ []UnreachedUntouched

\* two views whose parent links form a cycle, one unnamed and one holding an
\* unlowered operation: emission has returned
C26_Witness ==
    /\ epc = "done"
    /\ ejob.kind = "Tmpl"
    /\ Len(ejob.units) = 3
    /\ ejob.units[2].parent = << 2 >>
    /\ ejob.units[3].parent = << 1 >>
    /\ ejob.units[2].fnName = Null
    /\ HasUnlowered(ejob.units[3])
    /\ pool = pool0

\* a view declared next to an unnamed view whose parent names a view the
\* job does not have
C26_WitnessDangling ==
    /\ epc = "done"
    /\ ejob.kind = "Tmpl"
    /\ Len(ejob.units) = 3
    /\ ejob.units[2].parent = << 3 >>
    /\ ejob.units[2].fnName = Null
    /\ ejob.units[3].parent = << 0 >>
    /\ Len(pool) = Len(pool0) + 1


(***************************************************************************)
(* What formatI18nParams writes and what it leaves alone.                  *)
(***************************************************************************)
\* operation after is operation before, but for the three fields
\* formatI18nParams assigns
SameButFormatted(before, after) ==
    after = [before EXCEPT
                !.formattedParams = after.formattedParams,
                !.formattedPostprocessingParams = after.formattedPostprocessingParams,
                !.needsPostprocessing = after.needsPostprocessing]

\* C27: formatI18nParams changes only the formattedParams,
\* formattedPostprocessingParams and needsPostprocessing fields of root
\* ExtractedMessage operations found in create lists: extracted messages
\* that are not roots, every other operation, the membership and order of
\* every create and update list, and the input params and
\* postprocessingParams maps are all as they were.
C27_FormatChangesOnlyFormattedFields ==
    fpc = "done" =>
        /\ Len(fjob) = Len(fjob0)
        /\ \A u \in 1..Len(fjob0) :
              /\ fjob[u] = [fjob0[u] EXCEPT !.create = fjob[u].create]
              /\ fjob[u].update = fjob0[u].update
              /\ Len(fjob[u].create) = Len(fjob0[u].create)
              /\ \A i \in 1..Len(fjob0[u].create) :
                    LET before == fjob0[u].create[i]
                        after  == fjob[u].create[i]
                    IN IF before.kind = "ExtractedMessage" /\ before.isRoot
                       THEN /\ SameButFormatted(before, after)
                            /\ after.params = before.params
                            /\ after.postprocessingParams = before.postprocessingParams
                       ELSE after = before

\* a root message formatted with the flag set, next to an element, before
\* a binding, and with a non-root message of the same two placeholders in
\* another view
C27_Witness ==
    /\ fpc = "done"
    /\ fjob # fjob0
    /\ fjob[1].create[1].kind = "Element"
    /\ fjob[1].update # << >>
    /\ fjob[1].create[2].needsPostprocessing
    /\ Len(fjob[1].create[2].formattedParams[1]) = 2
    /\ ~fjob[2].create[1].isRoot
    /\ Len(fjob[2].create[1].params) = 2
    /\ fjob[2].create[1].formattedParams = << >>


\* the literal is a list of several values: LIST_START_MARKER, the values
\* with LIST_DELIMITER between them, LIST_END_MARKER
IsBracketedList(lit) ==
    /\ Len(lit.literal) >= 2
    /\ lit.literal[1] = LIST_START_MARKER
    /\ lit.literal[Len(lit.literal)] = LIST_END_MARKER

\* C28: whenever formatI18nParams leaves a root message with
\* needsPostprocessing = true, the formatted output holds something to
\* post-process: its formattedPostprocessingParams map is not empty, or one
\* of its formattedParams values is a bracketed list of several values.
C28_FlaggedMessageHasSomethingToPostprocess ==
    \A op \in FormattedRoots :
        op.needsPostprocessing =>
            \/ op.formattedPostprocessingParams[1] # << >>
            \/ \E e \in Entries(op.formattedParams[1]) : IsBracketedList(e.value)

===========================================================================
